---- MODULE Spec2Model ----
(***************************************************************************)
(* Ticket check-in backend (convex/tickets.ts) as a state machine.         *)
(*                                                                         *)
(* The tickets table is a function from uniqueId to the stored document.   *)
(* Every exported mutation is one transaction of the document store: the   *)
(* store runs a mutation on a snapshot taken when the handler starts,      *)
(* freezes Date.now() for the whole execution, and re-executes the handler *)
(* when a document it read was written by a transaction that committed in  *)
(* between.  scanTicket is therefore split into the start of an execution  *)
(* (BeginScan: the snapshot) and its commit (CommitScan: the whole         *)
(* decision and the patch); a write restarts the executions that read the  *)
(* written ticket (ConflictRetry).  An execution lasts far less than one   *)
(* tick of the model's clock (the store aborts a mutation after a second), *)
(* so the clock does not advance while an execution is running.            *)
(***************************************************************************)
EXTENDS Integers, Sequences, FiniteSets, TLC

(***************************************************************************)
(* Bounds of the model.                                                    *)
(***************************************************************************)
Epoch0 == 10000         \* server clock in the initial state (ms)
MaxTime == 16000        \* the clock is not advanced past this value
Deltas == {2999, 3000}  \* amounts by which the clock advances in one tick
Callers == {"c1", "c2"} \* client connections issuing scanTicket
NewIds == {"u1"}        \* uuids generateUniqueId can still hand out
LegacyId == "u0"        \* uniqueId of a ticket stored by an older version
UniqueIds == NewIds \cup {LegacyId}
ScannerArgs == {"<absent>", "", "Gate-A", "Gate-B"} \* args.scannedBy
LegacyCheckedInAt == 4000\* checkedInAt of a legacy checked-in ticket
\* The scripted traffic of one gate session: call i is made when the server
\* clock reads ScenarioTimes[i], with the name ScenarioScanners[i].
ScenarioTimes == <<1000, 1500, 5000, 6000>>
ScenarioScanners == <<"Gate-A", "Gate-A", "Gate-A", "Gate-B">>
\* The admin module is followed from the instant AdminEpoch0 on, at the
\* instants AdminEpoch0 + d for d in AdminOffsets; generateSecureToken hands
\* out the tokens of TokenSeq, in this order.  Where sessions are
\* invalidated and tickets created, only the tokens of AdminTokens are
\* handed out.
AdminEpoch0 == 500000
AdminOffsets == {0, 300000, 300001, 86400000, 86400001}
TokenSeq == <<"T1", "T2", "T3", "T4", "T5", "T6", "T7">>
AdminTokens == {"T1", "T2", "T3", "T4"}
\* The scanner client is followed from the instant ClientEpoch0 on, at the
\* instants ClientEpoch0 + d for d in ClientOffsets, with the codes of
\* QrCodes in front of the camera and at most MaxInFlight requests awaiting
\* their answer.
ClientEpoch0 == 20000
ClientOffsets == {0, 4999, 5000, 9999, 10000}
QrCodes == {"qr1", "qr2"}
MaxInFlight == 2

(***************************************************************************)
(* Program constants.                                                      *)
(***************************************************************************)
RapidFireWindow == 3000
SessionLifetime == 86400000
FailedAttemptWindow == 300000
FailedAttemptLimit == 5
FailedRecordLifetime == 300000
ResetDelay == 5000

(***************************************************************************)
(* Optional fields: a number that is undefined is Undef, a string that is  *)
(* undefined (or null) is NoScanner.                                       *)
(***************************************************************************)
Undef == -1
NoScanner == "<absent>"
NoToken == "<absent>"

\* JavaScript truthiness of an optional number / an optional string.
Truthy(n) == n # Undef /\ n # 0
TruthyStr(s) == s # NoScanner /\ s # ""
\* a || b on optional numbers, a ?? b on optional strings.
OrElse(a, b) == IF Truthy(a) THEN a ELSE b
Nullish(a, b) == IF a # NoScanner THEN a ELSE b

VARIABLES
  clock,          \* Date.now() of the server
  tickets,        \* the tickets table: uniqueId -> document
  adminSessions,  \* the adminSessions table: set of documents
  pc,             \* per caller: "idle", "running" or "done"
  call,           \* per caller: its scanTicket call: the arguments, the
                  \* ticket read, and as history whether the ticket was
                  \* unscanned when the call was made (fresh) and the
                  \* branch of the handler that returned (branch)
  result,         \* per caller: the value its last scanTicket returned
  lastCreate,     \* outcome of the last createTicket call
  lastAuth,       \* answer of the last call to the admin module
  accepted,       \* history: per uniqueId, scans that passed both guards
  firstBy,        \* history: per uniqueId, args.scannedBy of the scan that
                  \* took checkinCounter from 0 to 1
  firstNamed,     \* history: per uniqueId, args.scannedBy of the earliest
                  \* accepted scan that supplied one
  client          \* one QrScanner component instance: its refs, its
                  \* state, its timers and its scanTicket requests

vars == <<clock, tickets, adminSessions, pc, call, result, lastCreate,
          lastAuth, accepted, firstBy, firstNamed, client>>

NoCall == [uniqueId |-> "", scannedBy |-> NoScanner, snap |-> <<>>,
           fresh |-> FALSE, branch |-> ""]
NoResult == [status |-> "none"]
NoAuth == [success |-> FALSE, message |-> "none"]
NotYet == "<none yet>"

\* The QrScanner component after its first render, the camera started:
\* the refs and the state of the component, whether the camera delivers
\* detections (scanning), the pending restart and reset timeouts, the
\* requests awaiting their answer per code, and as history the instant the
\* last request for each code completed.
Mounted ==
  [isProcessingRef |-> FALSE, lastProcessedQRRef |-> "",
   showModal |-> FALSE, showNotFoundModal |-> FALSE,
   showModalRef |-> FALSE, showNotFoundModalRef |-> FALSE,
   isActive |-> TRUE, scanning |-> TRUE, restartPending |-> FALSE,
   resetAt |-> Undef,
   inFlight |-> [d \in QrCodes |-> 0],
   completedAt |-> [d \in QrCodes |-> Undef]]

(***************************************************************************)
(* validateAdminSession (tickets.ts helper)                                *)
(***************************************************************************)
\* (variant: the query does not filter on isActive)
ValidateAdminSession_IgnoresActive(sessions, sessionToken, now) ==
  /\ sessionToken # NoToken /\ sessionToken # ""
  /\ \E s \in sessions :
       /\ s.sessionToken = sessionToken
       /\ ~(s.expiresAt < now)
ValidateAdminSession(sessions, sessionToken, now) ==
  /\ sessionToken # NoToken /\ sessionToken # ""
  /\ \E s \in sessions :
       /\ s.sessionToken = sessionToken
       /\ s.isActive
       /\ ~(s.expiresAt < now)

(***************************************************************************)
(* createTicket                                                            *)
(***************************************************************************)
ValidRooms == {"D31", "D32", "D33", "D34"}
ValidSlots == {"1", "2"}

\* The checks of the handler in the order the code makes them; "ok" when
\* none throws.  roomNumber and slotNumber are the trimmed values.
CreateTicketCheck(sessions, a, now) ==
  IF ~ValidateAdminSession(sessions, a.sessionToken, now)
    THEN "Unauthorized: Valid admin session required to create tickets"
  ELSE IF a.teamMemberCount < 2 \/ a.teamMemberCount > 4
    THEN "Team member count must be between 2 and 4"
  ELSE IF a.roomNumber = ""
    THEN "Room number is required"
  ELSE IF a.slotNumber = ""
    THEN "Slot number is required"
  ELSE IF a.roomNumber \notin ValidRooms
    THEN "Invalid room number. Must be D31, D32, D33, or D34"
  ELSE IF a.slotNumber \notin ValidSlots
    THEN "Invalid slot number. Must be 1 or 2"
  ELSE "ok"

NewTicket ==
  [isCheckedIn |-> FALSE, checkedInAt |-> Undef, checkinCounter |-> 0,
   lastScanTime |-> 0, scannedBy |-> NoScanner, qrCodeStorageId |-> FALSE]

(***************************************************************************)
(* scanTicket: the decision of the handler on the ticket it read.          *)
(***************************************************************************)
ExistingScannedBy(t) == t.scannedBy
\* (variant: the requested name is preferred to the recorded one)
ScannerForResponse_RequestedFirst(t, requestedScannedBy) ==
  Nullish(requestedScannedBy, ExistingScannedBy(t))
ScannerForResponse(t, requestedScannedBy) ==
  Nullish(ExistingScannedBy(t), requestedScannedBy)

\* (variant: the names are tested against null, so "" is a name)
ConflictingScanner_NonNull(t, requestedScannedBy) ==
  /\ ExistingScannedBy(t) # NoScanner
  /\ requestedScannedBy # NoScanner
  /\ ExistingScannedBy(t) # requestedScannedBy
ConflictingScanner(t, requestedScannedBy) ==
  /\ TruthyStr(ExistingScannedBy(t))
  /\ TruthyStr(requestedScannedBy)
  /\ ExistingScannedBy(t) # requestedScannedBy

\* (variant: the window is closed, a scan exactly 3000 ms later is caught)
RapidFire_Inclusive(t, now) ==
  /\ Truthy(t.checkinCounter)
  /\ t.checkinCounter > 0
  /\ now - OrElse(t.lastScanTime, 0) <= RapidFireWindow
\* (variant: only the first repeat is caught, counters above 1 pass)
RapidFire_FirstRepeatOnly(t, now) ==
  /\ t.checkinCounter = 1
  /\ now - OrElse(t.lastScanTime, 0) < RapidFireWindow
RapidFire(t, now) ==
  /\ Truthy(t.checkinCounter)
  /\ t.checkinCounter > 0
  /\ now - OrElse(t.lastScanTime, 0) < RapidFireWindow

\* (variant: the names are tested for truthiness, as in the conflict rule)
IsSameScanner_Truthy(t, requestedScannedBy) ==
  /\ TruthyStr(ExistingScannedBy(t))
  /\ TruthyStr(requestedScannedBy)
  /\ ExistingScannedBy(t) = requestedScannedBy
IsSameScanner(t, requestedScannedBy) ==
  /\ ExistingScannedBy(t) # NoScanner
  /\ requestedScannedBy # NoScanner
  /\ ExistingScannedBy(t) = requestedScannedBy

\* (variant: only the ticket's side is tested)
NoScannerRecorded_TicketOnly(t, requestedScannedBy) ==
  ExistingScannedBy(t) = NoScanner
NoScannerRecorded(t, requestedScannedBy) ==
  ExistingScannedBy(t) = NoScanner /\ requestedScannedBy = NoScanner

\* (variant: a suppressed repeat is never answered as a first check-in)
FirstCheckInReplay_Never(t, requestedScannedBy) == FALSE
FirstCheckInReplay(t, requestedScannedBy) ==
  /\ t.checkinCounter = 1
  /\ (IsSameScanner(t, requestedScannedBy)
        \/ NoScannerRecorded(t, requestedScannedBy))

MsgFirst == "Ticket successfully scanned - First check-in!"
MsgWelcome == "Welcome! You are already checked in"
MsgNotFound == "Ticket not found"
MsgAlready(s) == "Ticket already scanned by " \o s
MsgMultiple(n) == "Ticket scanned multiple times (" \o ToString(n) \o " attempts)"

Snapshot(at, counter, by) ==
  [checkedInAt |-> at, checkinCounter |-> counter, scannedBy |-> by]

\* The descriptive fields every success or warning answer copies from the
\* ticket read (an absent optional field stays absent).
DetailFields ==
  {"teamName", "leaderName", "teamMemberCount", "roomNumber", "slotNumber"}
TicketDetails(t) == [f \in DetailFields \cap DOMAIN t |-> t[f]]
WithDetails(r, snap) ==
  IF "ticket" \in DOMAIN r
    THEN [r EXCEPT !.ticket = TicketDetails(snap[1]) @@ @]
    ELSE r

\* (variant: the message counts the attempts before the increment)
AcceptedMessage_OldCounter(currentCounter, newCounter) ==
  IF currentCounter = 1 THEN MsgWelcome ELSE MsgMultiple(currentCounter)
\* The message of an accepted scan that is not the first one.
AcceptedMessage(currentCounter, newCounter) ==
  IF currentCounter = 1 THEN MsgWelcome ELSE MsgMultiple(newCounter)

\* (variant: a suppressed scan is always greeted as already checked in)
RapidMessage_AlwaysWelcome(counter) == MsgWelcome
\* The message of a scan suppressed by the rapid-fire guard.
RapidMessage(counter) ==
  IF counter = 1 THEN MsgWelcome ELSE MsgMultiple(counter)

\* (variants of the patch: the counter is written back without the
\* increment; checkedInAt is overwritten; the requester is recorded)
ScanPatch_NoIncrement(t, requestedScannedBy, scanTime) ==
  [isCheckedIn |-> TRUE,
   checkedInAt |-> OrElse(t.checkedInAt, scanTime),
   checkinCounter |-> OrElse(t.checkinCounter, 0),
   lastScanTime |-> scanTime,
   scannedBy |-> ScannerForResponse(t, requestedScannedBy)]
ScanPatch_OverwriteCheckedInAt(t, requestedScannedBy, scanTime) ==
  [isCheckedIn |-> TRUE,
   checkedInAt |-> scanTime,
   checkinCounter |-> OrElse(t.checkinCounter, 0) + 1,
   lastScanTime |-> scanTime,
   scannedBy |-> ScannerForResponse(t, requestedScannedBy)]
ScanPatch_RecordsRequester(t, requestedScannedBy, scanTime) ==
  [isCheckedIn |-> TRUE,
   checkedInAt |-> OrElse(t.checkedInAt, scanTime),
   checkinCounter |-> OrElse(t.checkinCounter, 0) + 1,
   lastScanTime |-> scanTime,
   scannedBy |-> requestedScannedBy]
\* The fields db.patch writes on an accepted scan.
ScanPatch(t, requestedScannedBy, scanTime) ==
  [isCheckedIn |-> TRUE,
   checkedInAt |-> OrElse(t.checkedInAt, scanTime),
   checkinCounter |-> OrElse(t.checkinCounter, 0) + 1,
   lastScanTime |-> scanTime,
   scannedBy |-> ScannerForResponse(t, requestedScannedBy)]

\* What the handler returns and whether it patches, for the ticket read
\* (snap is <<>> when the index lookup found nothing, <<t>> otherwise).
ScanTicketHandler(snap, requestedScannedBy, now) ==
  IF snap = <<>> THEN
    [mutate |-> FALSE, branch |-> "notFound",
     result |-> [status |-> "error", message |-> MsgNotFound]]
  ELSE LET t == snap[1]
           currentCounter == OrElse(t.checkinCounter, 0)
           newCounter == currentCounter + 1
           by == ScannerForResponse(t, requestedScannedBy)
       IN
    IF ConflictingScanner(t, requestedScannedBy) THEN
      [mutate |-> FALSE, branch |-> "conflict",
       result |-> [status |-> "warning",
                   message |-> MsgAlready(ExistingScannedBy(t)),
                   ticket |-> Snapshot(OrElse(t.checkedInAt, Undef),
                                       OrElse(t.checkinCounter, 0),
                                       ExistingScannedBy(t))]]
    ELSE IF RapidFire(t, now) THEN
      IF FirstCheckInReplay(t, requestedScannedBy) THEN
        [mutate |-> FALSE, branch |-> "replay",
         result |-> [status |-> "success", message |-> MsgFirst,
                     ticket |-> Snapshot(OrElse(t.checkedInAt, now),
                                         t.checkinCounter, by)]]
      ELSE
        [mutate |-> FALSE, branch |-> "rapid",
         result |-> [status |-> "warning",
                     message |-> RapidMessage(t.checkinCounter),
                     ticket |-> Snapshot(t.checkedInAt, t.checkinCounter, by)]]
    ELSE IF currentCounter = 0 THEN
      [mutate |-> TRUE, branch |-> "accepted",
       result |-> [status |-> "success", message |-> MsgFirst,
                   ticket |-> Snapshot(now, newCounter, by)]]
    ELSE
      [mutate |-> TRUE, branch |-> "accepted",
       result |-> [status |-> "warning",
                   message |-> AcceptedMessage(currentCounter, newCounter),
                   ticket |-> Snapshot(t.checkedInAt, newCounter, by)]]

\* (variant: db.replace, the fields that are not named are dropped)
Patch_Replace(t, p) == p
\* db.patch(id, fields): the named fields are overwritten, the rest kept.
Patch(t, p) ==
  [f \in DOMAIN t |-> IF f \in DOMAIN p THEN p[f] ELSE t[f]]

\* (variant: the query is not restricted by the index and returns the
\* first ticket of the table)
Lookup_Unfiltered(tk, uid) ==
  IF uid \in DOMAIN tk THEN <<tk[uid]>>
  ELSE IF DOMAIN tk = {} THEN <<>>
  ELSE <<tk[CHOOSE u \in DOMAIN tk : TRUE]>>
\* The index lookup by_unique_id.first().
Lookup(tk, uid) == IF uid \in DOMAIN tk THEN <<tk[uid]>> ELSE <<>>

(***************************************************************************)
(* Optimistic concurrency of the store: when a transaction commits writes  *)
(* to the tickets in `written`, every other execution that read one of     *)
(* them is re-executed from the start on the new state, with a new frozen  *)
(* Date.now().                                                             *)
(***************************************************************************)
\* (variant: no re-execution, the execution commits on what it read)
ConflictRetry_Never(cl, running, written, newTickets) == cl
ConflictRetry(cl, running, written, newTickets) ==
  IF running /\ cl.uniqueId \in written
    THEN [cl EXCEPT !.snap = Lookup(newTickets, cl.uniqueId)]
    ELSE cl

(***************************************************************************)
(* Initial states: an empty tickets table, or one holding a ticket         *)
(* written by the first version of the application (no checkinCounter, no  *)
(* lastScanTime, no scannedBy, with the qrCodeStorageId field), and the    *)
(* session of an admin who has logged in.                                  *)
(***************************************************************************)
LegacyTicket(checkedIn) ==
  [isCheckedIn |-> checkedIn,
   checkedInAt |-> IF checkedIn THEN LegacyCheckedInAt ELSE Undef,
   checkinCounter |-> Undef, lastScanTime |-> Undef,
   scannedBy |-> NoScanner, qrCodeStorageId |-> TRUE]

EmptyTable == [u \in {} |-> NewTicket]

InitRest ==
  /\ clock = Epoch0
  /\ adminSessions = {[sessionToken |-> "S1", createdAt |-> Epoch0,
                       expiresAt |-> Epoch0 + SessionLifetime,
                       isActive |-> TRUE]}
  /\ pc = [c \in Callers |-> "idle"]
  /\ call = [c \in Callers |-> NoCall]
  /\ result = [c \in Callers |-> NoResult]
  /\ lastCreate = "none"
  /\ lastAuth = NoAuth
  /\ accepted = [u \in UniqueIds |-> 0]
  /\ firstBy = [u \in UniqueIds |-> NotYet]
  /\ firstNamed = [u \in UniqueIds |-> NoScanner]
  /\ client = Mounted

InitFresh == tickets = EmptyTable /\ InitRest

Init ==
  /\ \/ tickets = EmptyTable
     \/ \E b \in BOOLEAN : tickets = (LegacyId :> LegacyTicket(b))
  /\ InitRest

(***************************************************************************)
(* Actions                                                                 *)
(***************************************************************************)
\* The server clock advances (not in the middle of an execution).
Tick ==
  /\ \A c \in Callers : pc[c] # "running"
  /\ \E d \in Deltas : clock + d <= MaxTime /\ clock' = clock + d
  /\ UNCHANGED <<tickets, adminSessions, lastAuth, pc, call, result,
                 lastCreate, accepted, firstBy, firstNamed, client>>

\* Every running execution that read a ticket in `written` is restarted.
Restarted(written, newTickets, except) ==
  [c \in Callers |->
     IF c = except THEN call[c]
     ELSE ConflictRetry(call[c], pc[c] = "running", written, newTickets)]

CreateArgs ==
  [sessionToken : {NoToken, "S1"}, teamMemberCount : {1, 2},
   roomNumber : {"D31", "D35"}, slotNumber : {"1"}]

\* createTicket; the model follows one ticket, so the call is made while
\* the table is empty.
CreateTicket(a) ==
  LET outcome == CreateTicketCheck(adminSessions, a, clock) IN
  /\ tickets = EmptyTable
  /\ IF outcome = "ok"
       THEN \E uid \in NewIds :
              /\ tickets' = tickets @@ (uid :> NewTicket)
              /\ call' = Restarted({uid}, tickets', "")
       ELSE UNCHANGED <<tickets, call>>
  /\ lastCreate' = outcome
  /\ UNCHANGED <<clock, adminSessions, lastAuth, pc, result, accepted,
                 firstBy, firstNamed, client>>

\* A client calls scanTicket: the execution starts and reads the ticket.
BeginScan(c, uid, sb) ==
  /\ pc[c] \in {"idle", "done"}
  /\ pc' = [pc EXCEPT ![c] = "running"]
  /\ call' = [call EXCEPT ![c] =
                [uniqueId |-> uid, scannedBy |-> sb,
                 snap |-> Lookup(tickets, uid),
                 fresh |-> /\ uid \in DOMAIN tickets
                           /\ tickets[uid].checkinCounter = 0,
                 branch |-> ""]]
  /\ result' = [result EXCEPT ![c] = NoResult]
  /\ UNCHANGED <<clock, tickets, adminSessions, lastAuth, lastCreate,
                 accepted, firstBy, firstNamed, client>>

\* The execution of scanTicket decides, patches and returns.
CommitScan(c) ==
  LET cl == call[c]
      uid == cl.uniqueId
      h == ScanTicketHandler(cl.snap, cl.scannedBy, clock)
      t == cl.snap[1]
      passed == /\ cl.snap # <<>>
                /\ ~ConflictingScanner(t, cl.scannedBy)
                /\ ~RapidFire(t, clock)
  IN
  /\ pc[c] = "running"
  /\ pc' = [pc EXCEPT ![c] = "done"]
  /\ result' = [result EXCEPT ![c] = WithDetails(h.result, cl.snap)]
  /\ IF h.mutate
       THEN /\ tickets' = [tickets EXCEPT ![uid] =
                             Patch(@, ScanPatch(t, cl.scannedBy, clock))]
            /\ call' = [Restarted({uid}, tickets', c)
                          EXCEPT ![c].snap = <<>>, ![c].branch = h.branch]
       ELSE /\ tickets' = tickets
            /\ call' = [call EXCEPT ![c].snap = <<>>,
                                    ![c].branch = h.branch]
  /\ accepted' = IF passed THEN [accepted EXCEPT ![uid] = @ + 1]
                 ELSE accepted
  /\ firstBy' = IF passed /\ OrElse(t.checkinCounter, 0) = 0
                  THEN [firstBy EXCEPT ![uid] = cl.scannedBy]
                  ELSE firstBy
  /\ firstNamed' = IF passed /\ firstNamed[uid] = NoScanner
                     THEN [firstNamed EXCEPT ![uid] = cl.scannedBy]
                     ELSE firstNamed
  /\ UNCHANGED <<clock, adminSessions, lastAuth, lastCreate, client>>

\* The scanTicket traffic of connection c: tickets in ids, names in sbs.
ScanBy(c, ids, sbs) ==
  \/ \E uid \in ids, sb \in sbs : BeginScan(c, uid, sb)
  \/ CommitScan(c)

(***************************************************************************)
(* The migration mutations.  Each loops over every ticket of the table in  *)
(* one transaction; the tickets it patches are its write set.              *)
(***************************************************************************)
\* counter = ticket.isCheckedIn ? 1 : 0
CounterFromStatus(t) == IF t.isCheckedIn THEN 1 ELSE 0

MigrateTicket(t) ==
  IF t.checkinCounter = Undef
    THEN Patch(t, [checkinCounter |-> CounterFromStatus(t)])
    ELSE t

\* (variant: every counter is reset to zero)
ResetTicket_ToZero(t) == Patch(t, [checkinCounter |-> 0])
\* (variant: the reset also clears lastScanTime)
ResetTicket_ClearsLastScan(t) ==
  Patch(t, [checkinCounter |-> CounterFromStatus(t), lastScanTime |-> 0])
ResetTicket(t) == Patch(t, [checkinCounter |-> CounterFromStatus(t)])

\* (variant: the replacement document omits checkinCounter)
RemoveQrTicket_DropsCounter(t) ==
  IF t.qrCodeStorageId
    THEN [isCheckedIn |-> t.isCheckedIn, checkedInAt |-> t.checkedInAt,
          checkinCounter |-> Undef,
          lastScanTime |-> t.lastScanTime, scannedBy |-> t.scannedBy,
          qrCodeStorageId |-> FALSE]
    ELSE t
\* db.replace with every field but qrCodeStorageId.
RemoveQrTicket(t) ==
  IF t.qrCodeStorageId
    THEN [isCheckedIn |-> t.isCheckedIn, checkedInAt |-> t.checkedInAt,
          checkinCounter |-> t.checkinCounter,
          lastScanTime |-> t.lastScanTime, scannedBy |-> t.scannedBy,
          qrCodeStorageId |-> FALSE]
    ELSE t

MigrateTicketsWithCounter ==
  LET written == {u \in DOMAIN tickets : tickets[u].checkinCounter = Undef} IN
  /\ tickets' = [u \in DOMAIN tickets |-> MigrateTicket(tickets[u])]
  /\ call' = Restarted(written, tickets', "")
  /\ UNCHANGED <<clock, adminSessions, lastAuth, pc, result, lastCreate,
                 accepted, firstBy, firstNamed, client>>

ResetAllCounters ==
  /\ tickets' = [u \in DOMAIN tickets |-> ResetTicket(tickets[u])]
  /\ call' = Restarted(DOMAIN tickets, tickets', "")
  /\ UNCHANGED <<clock, adminSessions, lastAuth, pc, result, lastCreate,
                 accepted, firstBy, firstNamed, client>>

RemoveQrCodeStorageId ==
  LET written == {u \in DOMAIN tickets : tickets[u].qrCodeStorageId} IN
  /\ tickets' = [u \in DOMAIN tickets |-> RemoveQrTicket(tickets[u])]
  /\ call' = Restarted(written, tickets', "")
  /\ UNCHANGED <<clock, adminSessions, lastAuth, pc, result, lastCreate,
                 accepted, firstBy, firstNamed, client>>

Create == \E a \in CreateArgs : CreateTicket(a)

\* The tickets module used by two connections that call scanTicket with
\* any arguments, on tickets made by createTicket; no migration runs.
NextScan ==
  \/ Tick
  \/ Create
  \/ ScanBy("c1", UniqueIds, ScannerArgs)
  \/ ScanBy("c2", UniqueIds, ScannerArgs)

SpecScan == InitFresh /\ [][NextScan]_vars

\* Every mutation of the tickets module, on a table that may hold a legacy
\* ticket; scanTicket is called by one connection, and runs concurrently
\* with the migrations.
Next ==
  \/ Tick
  \/ Create
  \/ ScanBy("c1", UniqueIds, ScannerArgs)
  \/ MigrateTicketsWithCounter
  \/ ResetAllCounters
  \/ RemoveQrCodeStorageId

Spec == Init /\ [][Next]_vars

(***************************************************************************)
(* A scripted session.  Connection c1 creates a ticket when the clock      *)
(* reads ScenarioTimes[1] and then makes the calls of the script, one per  *)
(* scripted time, each after the previous one has returned.  Connection c2 *)
(* meanwhile scans a code that is not in the table.                        *)
(***************************************************************************)
InitScenario ==
  /\ clock = ScenarioTimes[1]
  /\ tickets = EmptyTable
  /\ adminSessions = {[sessionToken |-> "S1", createdAt |-> ScenarioTimes[1],
                       expiresAt |-> ScenarioTimes[1] + SessionLifetime,
                       isActive |-> TRUE]}
  /\ pc = [c \in Callers |-> "idle"]
  /\ call = [c \in Callers |-> NoCall]
  /\ result = [c \in Callers |-> NoResult]
  /\ lastCreate = "none"
  /\ lastAuth = NoAuth
  /\ accepted = [u \in UniqueIds |-> 0]
  /\ firstBy = [u \in UniqueIds |-> NotYet]
  /\ firstNamed = [u \in UniqueIds |-> NoScanner]
  /\ client = Mounted

\* The position of the script the clock is at.
ScenarioIndex == CHOOSE i \in DOMAIN ScenarioTimes : ScenarioTimes[i] = clock

\* c1 makes the call scripted for the current time on the created ticket.
ScenarioCall ==
  /\ pc["c1"] = "idle"
  /\ \E uid \in NewIds \cap DOMAIN tickets :
       BeginScan("c1", uid, ScenarioScanners[ScenarioIndex])

\* c1 has its answer; the clock reaches the next scripted time.
ScenarioWait ==
  /\ pc["c1"] = "done"
  /\ \A c \in Callers : pc[c] # "running"
  /\ ScenarioIndex < Len(ScenarioTimes)
  /\ clock' = ScenarioTimes[ScenarioIndex + 1]
  /\ pc' = [pc EXCEPT !["c1"] = "idle"]
  /\ UNCHANGED <<tickets, adminSessions, lastAuth, call, result, lastCreate,
                 accepted, firstBy, firstNamed, client>>

NextScenario ==
  \/ Create
  \/ ScenarioCall
  \/ CommitScan("c1")
  \/ ScenarioWait
  \/ ScanBy("c2", {LegacyId}, ScannerArgs)

SpecScenario == InitScenario /\ [][NextScenario]_vars

(***************************************************************************)
(* Two tickets with their descriptive fields: one inserted by createTicket *)
(* and one inserted by the earlier createTicket, which stored no           *)
(* roomNumber and no slotNumber.  One connection scans both.               *)
(***************************************************************************)
FrameScanners == {NoScanner, "Gate-A", "Gate-B"}

DescribedTicket ==
  NewTicket @@ [uniqueId |-> "u1", teamName |-> "Team-1",
                leaderName |-> "Lead-1", teamMemberCount |-> 2,
                roomNumber |-> "D31", slotNumber |-> "1"]
OlderTicket ==
  NewTicket @@ [uniqueId |-> LegacyId, teamName |-> "Team-0",
                leaderName |-> "Lead-0", teamMemberCount |-> 4]

InitFrame ==
  /\ tickets = ("u1" :> DescribedTicket) @@ (LegacyId :> OlderTicket)
  /\ InitRest

NextFrame ==
  \/ Tick
  \/ ScanBy("c1", UniqueIds \cup {"u9"}, FrameScanners)

SpecFrame == InitFrame /\ [][NextFrame]_vars

(***************************************************************************)
(* The scanner client (QrScanner.tsx): camera detections, the scanTicket   *)
(* requests they start, the modals, and the timeouts.                      *)
(***************************************************************************)
ServerVars == <<tickets, adminSessions, pc, call, result, lastCreate,
                lastAuth, accepted, firstBy, firstNamed>>

\* What a request can come back with: a status, or a thrown error.
Outcomes == {"success", "warning", "error", "throw"}

InFlightTotal(cl) ==
  LET RECURSIVE Sum(_)
      Sum(S) == IF S = {} THEN 0
                ELSE LET d == CHOOSE x \in S : TRUE
                     IN cl.inFlight[d] + Sum(S \ {d})
  IN Sum(QrCodes)

\* isActive as the detection callback sees it: the effect that creates the
\* callback runs once, so it reads the value of the first render.
ClosureIsActive == TRUE

\* The test of the detection callback, then the test of handleQRScan.
CallbackPasses(cl) ==
  /\ ClosureIsActive
  /\ ~cl.isProcessingRef
  /\ ~cl.showModalRef
  /\ ~cl.showNotFoundModalRef
HandleQRScanPasses(cl, qrData) ==
  ~(cl.isProcessingRef \/ cl.lastProcessedQRRef = qrData)

\* handleQRScan up to its await: the camera is stopped, the refs are set
\* and the request is sent.
StartRequest(cl, qrData) ==
  [cl EXCEPT !.scanning = FALSE, !.isProcessingRef = TRUE,
             !.lastProcessedQRRef = qrData, !.isActive = FALSE,
             !.inFlight[qrData] = @ + 1]

\* handleQRScan from its await on: the modal for the outcome, then the
\* finally block, which replaces the reset timeout.
FinishRequest(cl, qrData, outcome, now) ==
  [cl EXCEPT !.inFlight[qrData] = @ - 1,
             !.showModal = IF outcome \in {"success", "warning"}
                             THEN TRUE ELSE @,
             !.showNotFoundModal = IF outcome \in {"error", "throw"}
                                     THEN TRUE ELSE @,
             !.isProcessingRef = FALSE,
             !.resetAt = now + ResetDelay,
             !.completedAt[qrData] = now]

InitClient ==
  /\ clock = ClientEpoch0
  /\ tickets = EmptyTable
  /\ adminSessions = {}
  /\ pc = [c \in Callers |-> "idle"]
  /\ call = [c \in Callers |-> NoCall]
  /\ result = [c \in Callers |-> NoResult]
  /\ lastCreate = "none"
  /\ lastAuth = NoAuth
  /\ accepted = [u \in UniqueIds |-> 0]
  /\ firstBy = [u \in UniqueIds |-> NotYet]
  /\ firstNamed = [u \in UniqueIds |-> NoScanner]
  /\ client = Mounted

\* Time passes on the device; a due timeout fires before it passes on.
ClientTick ==
  /\ \E d \in ClientOffsets :
       /\ ClientEpoch0 + d > clock
       /\ client.resetAt # Undef => ClientEpoch0 + d <= client.resetAt
       /\ clock' = ClientEpoch0 + d
  /\ UNCHANGED <<ServerVars, client>>

\* The camera reports a code.
Detect(qrData) ==
  /\ client.scanning
  /\ client' =
       IF /\ CallbackPasses(client)
          /\ HandleQRScanPasses(client, qrData)
          /\ InFlightTotal(client) < MaxInFlight
         THEN StartRequest(client, qrData)
         ELSE client
  /\ UNCHANGED <<clock, ServerVars>>

\* A request comes back.
Respond(qrData, outcome) ==
  /\ client.inFlight[qrData] > 0
  /\ client' = FinishRequest(client, qrData, outcome, clock)
  /\ UNCHANGED <<clock, ServerVars>>

\* The component renders and its effects copy the modal state to the refs.
Render ==
  /\ \/ client.showModalRef # client.showModal
     \/ client.showNotFoundModalRef # client.showNotFoundModal
  /\ client' = [client EXCEPT !.showModalRef = client.showModal,
                              !.showNotFoundModalRef =
                                client.showNotFoundModal]
  /\ UNCHANGED <<clock, ServerVars>>

\* The operator closes the modal that is on the screen.
CloseModal ==
  /\ client.showModalRef
  /\ client' = [client EXCEPT !.showModal = FALSE, !.isActive = TRUE,
                              !.isProcessingRef = FALSE,
                              !.restartPending = TRUE]
  /\ UNCHANGED <<clock, ServerVars>>

CloseNotFoundModal ==
  /\ client.showNotFoundModalRef
  /\ client' = [client EXCEPT !.showNotFoundModal = FALSE,
                              !.isActive = TRUE,
                              !.isProcessingRef = FALSE,
                              !.restartPending = TRUE]
  /\ UNCHANGED <<clock, ServerVars>>

\* The 100 ms timeout of a modal close starts the camera again.
RestartScanner ==
  /\ client.restartPending
  /\ client' = [client EXCEPT !.restartPending = FALSE, !.scanning = TRUE]
  /\ UNCHANGED <<clock, ServerVars>>

\* The start / stop button.
StartScanner ==
  /\ ~client.isActive
  /\ client' = [client EXCEPT !.scanning = TRUE, !.isActive = TRUE]
  /\ UNCHANGED <<clock, ServerVars>>

StopScanner ==
  /\ client.isActive
  /\ client' = [client EXCEPT !.scanning = FALSE, !.isActive = FALSE]
  /\ UNCHANGED <<clock, ServerVars>>

\* The reset timeout fires.
ResetLastProcessedQR ==
  /\ client.resetAt # Undef
  /\ clock >= client.resetAt
  /\ client' = [client EXCEPT !.lastProcessedQRRef = "", !.resetAt = Undef]
  /\ UNCHANGED <<clock, ServerVars>>

Detection == \E qrData \in QrCodes : Detect(qrData)
Response ==
  \E qrData \in QrCodes : \E outcome \in Outcomes :
    Respond(qrData, outcome)

NextClient ==
  \/ ClientTick
  \/ Detection
  \/ Response
  \/ Render
  \/ CloseModal
  \/ CloseNotFoundModal
  \/ RestartScanner
  \/ StartScanner
  \/ StopScanner
  \/ ResetLastProcessedQR

SpecClient == InitClient /\ [][NextClient]_vars

(***************************************************************************)
(* The admin module: authenticateAdmin and invalidateAdminSession write    *)
(* the adminSessions table that createTicket reads.                        *)
(***************************************************************************)
\* process.env.ADMIN_PASSWORD of the deployment, and the passwords tried.
AdminPassword == "right"
Passwords == {"right", "wrong"}

\* generateSecureToken: the next token not handed out yet (one is used per
\* inserted document).
FailedToken(r) == "FAILED-" \o r
RawTokens == {TokenSeq[i] : i \in DOMAIN TokenSeq}
FailedTokens == {FailedToken(r) : r \in RawTokens}
TokenAvailable == Cardinality(adminSessions) < Len(TokenSeq)
GenerateSecureToken == TokenSeq[Cardinality(adminSessions) + 1]

\* s.sessionToken.startsWith("FAILED")
StartsWithFailed(tok) == tok \in FailedTokens

\* What authenticateAdmin answers and the documents it inserts.
AuthenticateAdminHandler_PasswordFirst(sessions, password, now, token) ==
  LET failedAttempts ==
        {s \in sessions :
           /\ s.createdAt >= now - FailedAttemptWindow
           /\ ~s.isActive /\ StartsWithFailed(s.sessionToken)}
  IN
  IF password = AdminPassword THEN
    [insert |-> {[sessionToken |-> token, createdAt |-> now,
                  expiresAt |-> now + SessionLifetime, isActive |-> TRUE]},
     reply |-> [success |-> TRUE, sessionToken |-> token,
                message |-> "Authentication successful"]]
  ELSE IF Cardinality(failedAttempts) >= FailedAttemptLimit THEN
    [insert |-> {},
     reply |-> [success |-> FALSE,
                message |->
                  "Too many failed attempts. Please try again later."]]
  ELSE
    [insert |-> {[sessionToken |-> FailedToken(token), createdAt |-> now,
                  expiresAt |-> now + FailedRecordLifetime,
                  isActive |-> FALSE]},
     reply |-> [success |-> FALSE, message |-> "Invalid credentials"]]
AuthenticateAdminHandler(sessions, password, now, token) ==
  LET recentAttempts ==
        {s \in sessions : s.createdAt >= now - FailedAttemptWindow}
      failedAttempts ==
        {s \in recentAttempts :
           ~s.isActive /\ StartsWithFailed(s.sessionToken)}
  IN
  IF AdminPassword = "" THEN
    [insert |-> {},
     reply |-> [success |-> FALSE,
                message |-> "Authentication service unavailable"]]
  ELSE IF Cardinality(failedAttempts) >= FailedAttemptLimit THEN
    [insert |-> {},
     reply |-> [success |-> FALSE,
                message |->
                  "Too many failed attempts. Please try again later."]]
  ELSE IF password # AdminPassword THEN
    [insert |-> {[sessionToken |-> FailedToken(token), createdAt |-> now,
                  expiresAt |-> now + FailedRecordLifetime,
                  isActive |-> FALSE]},
     reply |-> [success |-> FALSE, message |-> "Invalid credentials"]]
  ELSE
    [insert |-> {[sessionToken |-> token, createdAt |-> now,
                  expiresAt |-> now + SessionLifetime, isActive |-> TRUE]},
     reply |-> [success |-> TRUE, sessionToken |-> token,
                message |-> "Authentication successful"]]

InitAdmin ==
  /\ clock = AdminEpoch0
  /\ tickets = EmptyTable
  /\ adminSessions = {}
  /\ pc = [c \in Callers |-> "idle"]
  /\ call = [c \in Callers |-> NoCall]
  /\ result = [c \in Callers |-> NoResult]
  /\ lastCreate = "none"
  /\ lastAuth = NoAuth
  /\ accepted = [u \in UniqueIds |-> 0]
  /\ firstBy = [u \in UniqueIds |-> NotYet]
  /\ firstNamed = [u \in UniqueIds |-> NoScanner]
  /\ client = Mounted

\* The server clock reaches a later one of the instants followed.
AdminTick ==
  /\ \E d \in AdminOffsets :
       /\ AdminEpoch0 + d > clock
       /\ clock' = AdminEpoch0 + d
  /\ UNCHANGED <<tickets, adminSessions, lastAuth, pc, call, result,
                 lastCreate, accepted, firstBy, firstNamed, client>>

AuthenticateAdmin(password) ==
  LET h == AuthenticateAdminHandler(adminSessions, password, clock,
                                    GenerateSecureToken) IN
  /\ TokenAvailable
  /\ adminSessions' = adminSessions \cup h.insert
  /\ lastAuth' = h.reply
  /\ UNCHANGED <<clock, tickets, pc, call, result, lastCreate, accepted,
                 firstBy, firstNamed, client>>

\* invalidateAdminSession: the document with the token, active or not, is
\* patched; the answer is the same whether or not there is one.
InvalidateAdminSession(sessionToken) ==
  /\ adminSessions' =
       {IF s.sessionToken = sessionToken
          THEN [s EXCEPT !.isActive = FALSE] ELSE s : s \in adminSessions}
  /\ lastAuth' = [success |-> TRUE, message |-> "Session invalidated"]
  /\ UNCHANGED <<clock, tickets, pc, call, result, lastCreate, accepted,
                 firstBy, firstNamed, client>>

\* The validateAdminSession query of the admin module: the first active
\* document with the token (tokens are unique), then its expiry.
SessionQuery_InclusiveExpiry(sessions, sessionToken, now) ==
  LET found == {s \in sessions :
                  s.sessionToken = sessionToken /\ s.isActive}
  IN
  IF found = {} THEN
    [isValid |-> FALSE, message |-> "Invalid session token"]
  ELSE IF \E s \in found : s.expiresAt <= now THEN
    [isValid |-> FALSE, message |-> "Session expired"]
  ELSE
    [isValid |-> TRUE, message |-> "Session valid"]
SessionQuery_Unfiltered(sessions, sessionToken, now) ==
  LET found == {s \in sessions : s.sessionToken = sessionToken}
  IN
  IF found = {} THEN
    [isValid |-> FALSE, message |-> "Invalid session token"]
  ELSE IF \E s \in found : s.expiresAt < now THEN
    [isValid |-> FALSE, message |-> "Session expired"]
  ELSE
    [isValid |-> TRUE, message |-> "Session valid"]
SessionQuery(sessions, sessionToken, now) ==
  LET found == {s \in sessions :
                  s.sessionToken = sessionToken /\ s.isActive}
  IN
  IF found = {} THEN
    [isValid |-> FALSE, message |-> "Invalid session token"]
  ELSE IF \E s \in found : s.expiresAt < now THEN
    [isValid |-> FALSE, message |-> "Session expired"]
  ELSE
    [isValid |-> TRUE, message |-> "Session valid"]

\* A client asks whether a token is valid; nothing is written.
QueryAdminSession(sessionToken) ==
  /\ lastAuth' = SessionQuery(adminSessions, sessionToken, clock)
  /\ UNCHANGED <<clock, tickets, adminSessions, pc, call, result, lastCreate,
                 accepted, firstBy, firstNamed, client>>

\* The session tokens clients send: none, the empty string, and every
\* string that is or may become the token of a document.
TokenArgs ==
  {NoToken, ""} \cup AdminTokens \cup {FailedToken(r) : r \in AdminTokens}
AdminCreateArgs ==
  [sessionToken : TokenArgs, teamMemberCount : {2, 5},
   roomNumber : {"D31"}, slotNumber : {"1"}]

Authenticate ==
  /\ TokenAvailable
  /\ GenerateSecureToken \in AdminTokens
  /\ \E password \in Passwords : AuthenticateAdmin(password)
Invalidate == \E tok \in TokenArgs \ {NoToken} : InvalidateAdminSession(tok)
AdminCreate == \E a \in AdminCreateArgs : CreateTicket(a)

NextAdmin ==
  \/ AdminTick
  \/ Authenticate
  \/ Invalidate
  \/ AdminCreate

SpecAdmin == InitAdmin /\ [][NextAdmin]_vars

\* The session life cycle alone: login, logout and the validity query.
Query == \E tok \in TokenArgs \ {NoToken} : QueryAdminSession(tok)

NextSessions ==
  \/ AdminTick
  \/ Authenticate
  \/ Invalidate
  \/ Query

SpecSessions == InitAdmin /\ [][NextSessions]_vars

\* The login endpoint alone, under a run of attempts long enough to reach
\* the limit on failed attempts.
AuthenticateUnderLoad ==
  \E password \in Passwords : AuthenticateAdmin(password)

NextRate ==
  \/ AdminTick
  \/ AuthenticateUnderLoad

SpecRate == InitAdmin /\ [][NextRate]_vars

\* Two clients of the login endpoint: one that does not know the password
\* and keeps guessing, and the administrator, who sends the right one.  The
\* mutation receives args.password alone, so the calls differ in nothing
\* but the password.
GuessingClient ==
  /\ TokenAvailable
  /\ AuthenticateAdmin("wrong")
AdminClient ==
  /\ TokenAvailable
  /\ AuthenticateAdmin(AdminPassword)

NextClients ==
  \/ AdminTick
  \/ GuessingClient
  \/ AdminClient

SpecClients == InitAdmin /\ [][NextClients]_vars

(***************************************************************************)
(* Properties                                                              *)
(***************************************************************************)
\* The ticket a call is about, as stored.
Stored(c) == tickets[call[c].uniqueId]
Known(c) == call[c].uniqueId \in DOMAIN tickets
Other(c) == CHOOSE d \in Callers : d # c
Created == NewIds \cap DOMAIN tickets
\* The call of c is inside the rapid-fire window of the stored ticket.
InWindow(c) == clock - OrElse(Stored(c).lastScanTime, 0) < RapidFireWindow

\* Two calls on the same unscanned ticket, made before either returned,
\* one as Gate-A and one as Gate-B, have both returned.
RaceOver(c, d) ==
  /\ c # d
  /\ pc[c] = "done" /\ pc[d] = "done"
  /\ call[c].fresh /\ call[d].fresh
  /\ call[c].uniqueId = call[d].uniqueId
  /\ call[c].scannedBy = "Gate-A" /\ call[d].scannedBy = "Gate-B"

\* C1: of two concurrent first scans of a fresh ticket by Gate-A and
\* Gate-B, exactly one takes the accepted branch with counter 0 and returns
\* "success"; the other sees the updated ticket and returns the
\* already-scanned warning; the counter ends at 1, the number of accepted
\* scans.
C1_ExactlyOneFirstScanSucceeds ==
  \A c, d \in Callers :
    RaceOver(c, d) =>
      /\ \E w \in {c, d} :
           LET l == Other(w) IN
           /\ call[w].branch = "accepted"
           /\ result[w].status = "success"
           /\ result[w].ticket.checkinCounter = 1
           /\ call[l].branch = "conflict"
           /\ result[l].status = "warning"
           /\ result[l].message = MsgAlready(call[w].scannedBy)
      /\ tickets[call[c].uniqueId].checkinCounter = 1
      /\ accepted[call[c].uniqueId] = 1

C1_Witness == \E c, d \in Callers : RaceOver(c, d)

\* C2: a scanTicket call whose scannedBy differs from the ticket's recorded
\* scannedBy S never increments checkinCounter and never changes scannedBy,
\* checkedInAt, lastScanTime or isCheckedIn, and it returns a warning.
C2_OtherScannerNeverMutates ==
  [][\A c \in Callers :
       (/\ CommitScan(c)
        /\ Known(c)
        /\ Stored(c).scannedBy # NoScanner
        /\ call[c].scannedBy # NoScanner
        /\ call[c].scannedBy # Stored(c).scannedBy)
       => /\ tickets' = tickets
          /\ result'[c].status = "warning"]_vars

\* C3: the stored checkinCounter of a created ticket equals the number of
\* scanTicket calls on it that neither guard suppressed.
C3_CounterCountsAcceptedScans ==
  \A u \in DOMAIN tickets : tickets[u].checkinCounter = accepted[u]

C3_Witness ==
  \E u \in DOMAIN tickets, c \in Callers :
    /\ tickets[u].checkinCounter = 2
    /\ pc[c] = "done" /\ call[c].uniqueId = u
    /\ call[c].branch \in {"conflict", "rapid", "replay"}

\* C4: for a ticket made by createTicket, checkinCounter = 0, isCheckedIn
\* = false and checkedInAt unset are equivalent in every state, and
\* isCheckedIn never goes back from true to false.
C4_CheckedInEquivalence ==
  /\ [](\A u \in Created :
          /\ (tickets[u].checkinCounter = 0) <=> ~tickets[u].isCheckedIn
          /\ ~tickets[u].isCheckedIn <=> (tickets[u].checkedInAt = Undef))
  /\ [][\A u \in Created :
          tickets[u].isCheckedIn => tickets'[u].isCheckedIn]_vars

C4_Witness ==
  \E u \in Created :
    /\ tickets[u].isCheckedIn
    /\ tickets[u].checkinCounter = 1
    /\ accepted[u] >= 2

\* C5: once scannedBy holds a value, every later state holds the same
\* value.
C5_ScannedByImmutable ==
  [][\A u \in DOMAIN tickets :
       tickets[u].scannedBy # NoScanner
       => tickets'[u].scannedBy = tickets[u].scannedBy]_vars

C5_Witness ==
  \E c \in Callers :
    /\ pc[c] = "done" /\ call[c].branch = "accepted"
    /\ Known(c)
    /\ Stored(c).checkinCounter >= 2
    /\ Stored(c).scannedBy # NoScanner
    /\ call[c].scannedBy # Stored(c).scannedBy

\* C6: once checkedInAt is set, every later state holds the same value.
C6_CheckedInAtImmutable ==
  [][\A u \in DOMAIN tickets :
       tickets[u].checkedInAt # Undef
       => tickets'[u].checkedInAt = tickets[u].checkedInAt]_vars

C6_Witness ==
  \E u \in DOMAIN tickets :
    /\ tickets[u].checkedInAt # Undef
    /\ tickets[u].lastScanTime # Undef
    /\ tickets[u].lastScanTime > tickets[u].checkedInAt

\* C7 as stated: no step of any operation lowers the checkinCounter of a
\* ticket made by createTicket.
C7_CounterNeverDecreases ==
  [][\A u \in Created :
       tickets'[u].checkinCounter >= tickets[u].checkinCounter]_vars

\* C7 amended: no step other than resetAllCounters lowers a ticket's
\* checkinCounter; resetAllCounters sets it to 1 for a checked-in ticket
\* and to 0 for any other.
C7_CounterDecreasesOnlyOnReset ==
  [][\A u \in DOMAIN tickets :
       tickets[u].checkinCounter # Undef
       => \/ tickets'[u].checkinCounter >= tickets[u].checkinCounter
          \/ /\ ResetAllCounters
             /\ tickets'[u].checkinCounter = CounterFromStatus(tickets[u])]_vars

C7_Witness ==
  \E u \in DOMAIN tickets :
    /\ tickets[u].checkinCounter = 1
    /\ accepted[u] >= 2

\* C8 as stated: a set scannedBy is the name supplied by the scan that took
\* checkinCounter from 0 to 1.
C8_OwnerIsFirstAcceptedScan ==
  \A u \in DOMAIN tickets :
    tickets[u].scannedBy # NoScanner => tickets[u].scannedBy = firstBy[u]

\* C8 amended: scannedBy is the name supplied by the earliest accepted scan
\* that supplied one (unset while no accepted scan supplied one).
C8_OwnerIsFirstNamedAcceptedScan ==
  \A u \in DOMAIN tickets : tickets[u].scannedBy = firstNamed[u]

C8_Witness ==
  \E u \in DOMAIN tickets :
    /\ firstBy[u] = NoScanner
    /\ tickets[u].scannedBy # NoScanner
    /\ tickets[u].checkinCounter >= 2

\* C9: a call on a ticket with checkinCounter = 1, inside the rapid-fire
\* window, with the recorded scanner's name, returns the first-check-in
\* success with the stored checkedInAt and counter 1, and changes nothing.
C9_SameScannerReplay ==
  [][\A c \in Callers :
       (/\ CommitScan(c)
        /\ Known(c)
        /\ Stored(c).checkinCounter = 1
        /\ InWindow(c)
        /\ Stored(c).scannedBy # NoScanner
        /\ call[c].scannedBy = Stored(c).scannedBy)
       => /\ tickets' = tickets
          /\ result'[c].status = "success"
          /\ result'[c].message = MsgFirst
          /\ result'[c].ticket.checkedInAt = Stored(c).checkedInAt
          /\ result'[c].ticket.checkinCounter = 1]_vars

C9_Witness ==
  \E c \in Callers :
    /\ pc[c] = "done" /\ call[c].branch = "replay"
    /\ call[c].scannedBy # NoScanner
    /\ result[c].status = "success"

\* C10 as stated: a call with a scanner name on a ticket with
\* checkinCounter = 1 and no recorded scanner, inside the window, takes the
\* first-check-in replay.
C10_NamedRepeatIsReplay ==
  [][\A c \in Callers :
       (/\ CommitScan(c)
        /\ Known(c)
        /\ Stored(c).checkinCounter = 1
        /\ InWindow(c)
        /\ Stored(c).scannedBy = NoScanner
        /\ call[c].scannedBy # NoScanner)
       => /\ tickets' = tickets
          /\ result'[c].status = "success"
          /\ result'[c].message = MsgFirst]_vars

\* C10 amended: on a ticket with checkinCounter = 1 and no recorded
\* scanner, inside the window, a call with a scanner name returns the
\* warning "Welcome! You are already checked in" and a call without one
\* returns the first-check-in replay; neither changes the ticket.
C10_NamedRepeatIsWarning ==
  [][\A c \in Callers :
       (/\ CommitScan(c)
        /\ Known(c)
        /\ Stored(c).checkinCounter = 1
        /\ InWindow(c)
        /\ Stored(c).scannedBy = NoScanner)
       => /\ tickets' = tickets
          /\ IF call[c].scannedBy # NoScanner
               THEN /\ result'[c].status = "warning"
                    /\ result'[c].message = MsgWelcome
               ELSE /\ result'[c].status = "success"
                    /\ result'[c].message = MsgFirst]_vars

C10_Witness ==
  \E c \in Callers :
    /\ pc[c] = "done" /\ call[c].branch = "rapid"
    /\ Known(c)
    /\ Stored(c).checkinCounter = 1
    /\ Stored(c).scannedBy = NoScanner
    /\ call[c].scannedBy # NoScanner
    /\ result[c].message = MsgWelcome

\* C11: a scan that increments the counter is classified by the counter k
\* stored before the increment (an absent counter reads as 0): k = 0 gives
\* "success" with the first-check-in message, k = 1 gives "warning" with
\* "Welcome! You are already checked in", k >= 2 gives "warning" with
\* "Ticket scanned multiple times (N attempts)", N = k + 1.
C11_AcceptedScanClassified ==
  [][\A c \in Callers :
       (/\ CommitScan(c)
        /\ Known(c)
        /\ tickets'[call[c].uniqueId].checkinCounter =
             OrElse(Stored(c).checkinCounter, 0) + 1)
       => LET k == OrElse(Stored(c).checkinCounter, 0) IN
          /\ k = 0 => /\ result'[c].status = "success"
                      /\ result'[c].message = MsgFirst
          /\ k = 1 => /\ result'[c].status = "warning"
                      /\ result'[c].message = MsgWelcome
          /\ k >= 2 => /\ result'[c].status = "warning"
                       /\ result'[c].message = MsgMultiple(k + 1)]_vars

C11_Witness ==
  \E c \in Callers :
    /\ pc[c] = "done" /\ call[c].branch = "accepted"
    /\ Known(c)
    /\ Stored(c).checkinCounter = 3
    /\ result[c].message = MsgMultiple(3)

\* C12: a call on a ticket with checkinCounter > 0, less than 3000 ms after
\* lastScanTime, that is not returned by the conflicting-scanner check and
\* does not qualify for the first-check-in replay, returns "warning" and
\* leaves the store as it was; the message is "Welcome! You are already
\* checked in" for counter 1 and "Ticket scanned multiple times (N
\* attempts)" with N the stored counter otherwise.
C12_RapidFireSuppressed ==
  [][\A c \in Callers :
       (/\ CommitScan(c)
        /\ Known(c)
        /\ Stored(c).checkinCounter > 0
        /\ InWindow(c)
        /\ ~(/\ TruthyStr(Stored(c).scannedBy)
             /\ TruthyStr(call[c].scannedBy)
             /\ Stored(c).scannedBy # call[c].scannedBy)
        /\ ~(/\ Stored(c).checkinCounter = 1
             /\ Stored(c).scannedBy = call[c].scannedBy))
       => /\ tickets' = tickets
          /\ result'[c].status = "warning"
          /\ result'[c].message =
               IF Stored(c).checkinCounter = 1 THEN MsgWelcome
               ELSE MsgMultiple(Stored(c).checkinCounter)
          /\ result'[c].ticket.checkinCounter = Stored(c).checkinCounter]_vars

C12_Witness ==
  \E c \in Callers :
    /\ pc[c] = "done" /\ call[c].branch = "rapid"
    /\ Known(c)
    /\ Stored(c).checkinCounter = 2
    /\ result[c].status = "warning"
    /\ result[c].message = MsgMultiple(2)

\* C13: a call whose uniqueId matches no stored ticket returns exactly
\* {status: "error", message: "Ticket not found"}, with no ticket snapshot,
\* returns normally, and leaves the tickets table unchanged.
C13_NotFoundIsError ==
  [][\A c \in Callers :
       (CommitScan(c) /\ ~Known(c))
       => /\ result'[c] = [status |-> "error", message |-> MsgNotFound]
          /\ "ticket" \notin DOMAIN result'[c]
          /\ pc'[c] = "done"
          /\ tickets' = tickets]_vars

C13_Witness ==
  \E c \in Callers :
    /\ pc[c] = "done" /\ call[c].branch = "notFound"
    /\ DOMAIN tickets # {}
    /\ call[c].uniqueId \notin DOMAIN tickets
    /\ result[c].status = "error"

\* C14: a call whose scanner name differs from the recorded scannedBy and
\* that arrives less than 3000 ms after lastScanTime returns the warning
\* "Ticket already scanned by <recorded name>", whatever the counter: never
\* the first-check-in replay, never "Welcome! You are already checked in",
\* never "Ticket scanned multiple times".
C14_ConflictBeforeRapidFire ==
  [][\A c \in Callers :
       (/\ CommitScan(c)
        /\ Known(c)
        /\ Stored(c).scannedBy # NoScanner
        /\ call[c].scannedBy # NoScanner
        /\ call[c].scannedBy # Stored(c).scannedBy
        /\ InWindow(c))
       => /\ result'[c].status = "warning"
          /\ result'[c].message = MsgAlready(Stored(c).scannedBy)]_vars

\* The ticket of the scripted session as stored, and c1's last answer.
ScenarioTicket == tickets[CHOOSE u \in NewIds : u \in DOMAIN tickets]
ScenarioResult == result["c1"]
ScenarioStored(counter, last) ==
  /\ ScenarioTicket.isCheckedIn
  /\ ScenarioTicket.checkinCounter = counter
  /\ ScenarioTicket.checkedInAt = 1000
  /\ ScenarioTicket.lastScanTime = last
  /\ ScenarioTicket.scannedBy = "Gate-A"

\* C15: on a fresh ticket, Gate-A at 1000 gets the first-check-in success
\* (counter 1, checkedInAt 1000, scannedBy Gate-A); Gate-A at 1500 gets the
\* first-check-in success again and nothing is written; Gate-A at 5000 is
\* accepted with "Welcome! You are already checked in" and the counter
\* becomes 2 (lastScanTime was still 1000); Gate-B at 6000 gets "Ticket
\* already scanned by Gate-A" and the counter stays 2.
C15_GateScenario ==
  pc["c1"] = "done" =>
    /\ clock = 1000 =>
         /\ call["c1"].scannedBy = "Gate-A"
         /\ ScenarioResult =
              [status |-> "success", message |-> MsgFirst,
               ticket |-> Snapshot(1000, 1, "Gate-A")]
         /\ ScenarioStored(1, 1000)
    /\ clock = 1500 =>
         /\ call["c1"].scannedBy = "Gate-A"
         /\ ScenarioResult =
              [status |-> "success", message |-> MsgFirst,
               ticket |-> Snapshot(1000, 1, "Gate-A")]
         /\ ScenarioStored(1, 1000)
    /\ clock = 5000 =>
         /\ call["c1"].scannedBy = "Gate-A"
         /\ call["c1"].branch = "accepted"
         /\ ScenarioResult =
              [status |-> "warning", message |-> MsgWelcome,
               ticket |-> Snapshot(1000, 2, "Gate-A")]
         /\ ScenarioStored(2, 5000)
    /\ clock = 6000 =>
         /\ call["c1"].scannedBy = "Gate-B"
         /\ ScenarioResult =
              [status |-> "warning",
               message |-> "Ticket already scanned by Gate-A",
               ticket |-> Snapshot(1000, 2, "Gate-A")]
         /\ ScenarioStored(2, 5000)

C15_Witness ==
  /\ pc["c1"] = "done"
  /\ clock = 6000
  /\ call["c1"].scannedBy = "Gate-B"
  /\ accepted["u1"] = 2
  /\ ScenarioResult.status = "warning"

\* C16: the lastScanTime of a stored ticket changes only in a scanTicket
\* step that takes the accepted branch on that ticket (the one that
\* increments its counter), and the value written is at least the previous
\* one (an absent value reads as 0); a call answered by the conflict check,
\* the rapid-fire guard or "not found" leaves the table as it was.
C16_LastScanTimeMonotonic ==
  [][/\ \A u \in DOMAIN tickets :
          (u \in DOMAIN tickets'
           /\ tickets'[u].lastScanTime # tickets[u].lastScanTime)
          => /\ \E c \in Callers :
                  /\ CommitScan(c)
                  /\ call[c].uniqueId = u
                  /\ call'[c].branch = "accepted"
                  /\ tickets'[u].checkinCounter =
                       OrElse(tickets[u].checkinCounter, 0) + 1
             /\ tickets'[u].lastScanTime >= OrElse(tickets[u].lastScanTime, 0)
     /\ \A c \in Callers :
          (CommitScan(c)
           /\ call'[c].branch \in {"conflict", "replay", "rapid", "notFound"})
          => tickets' = tickets]_vars

C16_Witness ==
  \E c \in Callers :
    /\ pc[c] = "done" /\ call[c].branch \in {"conflict", "rapid"}
    /\ Known(c)
    /\ accepted[call[c].uniqueId] = 2
    /\ Stored(c).lastScanTime > Epoch0

\* C17: whenever scanTicket answers "success" or "warning", the snapshot in
\* the answer has the checkinCounter, checkedInAt and scannedBy of the
\* ticket as stored right after the call.
C17_SnapshotAgreesWithStore ==
  [][\A c \in Callers :
       (CommitScan(c) /\ result'[c].status \in {"success", "warning"})
       => LET stored == tickets'[call[c].uniqueId] IN
          /\ result'[c].ticket.checkinCounter = stored.checkinCounter
          /\ result'[c].ticket.checkedInAt = stored.checkedInAt
          /\ result'[c].ticket.scannedBy = stored.scannedBy]_vars

\* C18: the three migration mutations take no session token (args: {}), so
\* every call of one is a call without a valid admin session token; such a
\* call is rejected and changes no ticket.
C18_MigrationsNeedAdminSession ==
  [][(MigrateTicketsWithCounter \/ ResetAllCounters \/ RemoveQrCodeStorageId)
       => tickets' = tickets]_vars

\* The documents of adminSessions with the given token, by kind.
Unauthorized == "Unauthorized: Valid admin session required to create tickets"
SessionsOf(tok) == {s \in adminSessions : s.sessionToken = tok}
LiveSession(tok) ==
  \E s \in SessionsOf(tok) : s.isActive /\ s.expiresAt >= clock
Invalidated(tok) ==
  tok \in RawTokens /\ \E s \in SessionsOf(tok) : ~s.isActive
Expired(tok) ==
  \E s \in SessionsOf(tok) : s.isActive /\ s.expiresAt < clock
FailedAttempt(tok) ==
  tok \in FailedTokens /\ SessionsOf(tok) # {}

\* C19: a createTicket step inserts a ticket only if its sessionToken is
\* that of a document of adminSessions that is active and whose expiresAt
\* is not before the current time; with no token, a token of no document,
\* of an invalidated session, of an expired session or of a failed-attempt
\* document it throws "Unauthorized..." and the tickets table is unchanged.
C19_CreateNeedsLiveSession ==
  [][\A a \in AdminCreateArgs :
       CreateTicket(a) =>
         LET tok == a.sessionToken IN
         /\ tickets' # tickets => LiveSession(tok)
         /\ (\/ tok \in {NoToken, ""}
             \/ SessionsOf(tok) = {}
             \/ Invalidated(tok)
             \/ Expired(tok)
             \/ FailedAttempt(tok))
            => /\ lastCreate' = Unauthorized
               /\ tickets' = tickets]_vars

\* createTicket has just been refused while the table holds an invalidated
\* session, an expired one, a failed-attempt document and a live session.
C19_Witness ==
  /\ lastCreate = Unauthorized
  /\ tickets = EmptyTable
  /\ \E tok \in RawTokens : Invalidated(tok)
  /\ \E tok \in RawTokens : Expired(tok)
  /\ \E tok \in FailedTokens : FailedAttempt(tok)
  /\ \E tok \in RawTokens : LiveSession(tok)

\* C20: a call on a ticket with checkinCounter > 0 to which the
\* conflicting-scanner rule does not apply (no name recorded, none
\* supplied, or the same name) writes nothing when now - lastScanTime is at
\* most 2999, and increments the counter when it is 3000 or more.
C20_WindowHalfOpen ==
  [][\A c \in Callers :
       (/\ CommitScan(c)
        /\ Known(c)
        /\ Stored(c).checkinCounter > 0
        /\ \/ Stored(c).scannedBy = NoScanner
           \/ call[c].scannedBy = NoScanner
           \/ call[c].scannedBy = Stored(c).scannedBy)
       => LET elapsed == clock - OrElse(Stored(c).lastScanTime, 0) IN
          /\ elapsed <= 2999 =>
               /\ tickets' = tickets
               /\ call'[c].branch \in {"replay", "rapid"}
          /\ elapsed >= 3000 =>
               /\ tickets'[call[c].uniqueId].checkinCounter =
                    Stored(c).checkinCounter + 1
               /\ call'[c].branch = "accepted"]_vars

\* One call was accepted exactly 3000 ms after the first scan, and a later
\* call, 2999 ms after that one, was suppressed.
C20_Witness ==
  \E c, d \in Callers :
    /\ pc[c] = "done" /\ pc[d] = "done"
    /\ call[c].uniqueId = call[d].uniqueId
    /\ Known(c)
    /\ call[c].branch = "accepted"
    /\ result[c].ticket.checkinCounter = 2
    /\ accepted[call[c].uniqueId] = 2
    /\ Stored(c).checkedInAt = Epoch0
    /\ Stored(c).lastScanTime = Epoch0 + 3000
    /\ call[d].branch = "rapid"
    /\ clock = Stored(c).lastScanTime + 2999

\* C21: whatever the interleaving of the calls of the clients, a step that
\* increments the counter of a ticket that already had an accepted scan
\* happens at least 3000 ms of server time after that accepted scan (whose
\* time is the stored lastScanTime).
C21_AcceptedScansApart ==
  [][\A c \in Callers :
       (/\ CommitScan(c)
        /\ Known(c)
        /\ accepted[call[c].uniqueId] >= 1
        /\ tickets'[call[c].uniqueId].checkinCounter =
             OrElse(Stored(c).checkinCounter, 0) + 1)
       => /\ clock - Stored(c).lastScanTime >= RapidFireWindow
          /\ tickets'[call[c].uniqueId].lastScanTime = clock]_vars

C21_Witness ==
  \E c, d \in Callers :
    /\ c # d
    /\ pc[c] = "done" /\ pc[d] = "done"
    /\ call[c].uniqueId = call[d].uniqueId
    /\ Known(c)
    /\ call[c].branch = "accepted" /\ call[d].branch = "accepted"
    /\ accepted[call[c].uniqueId] = 3
    /\ Stored(c).checkinCounter = 3
    /\ Stored(c).lastScanTime = Epoch0 + 2 * RapidFireWindow

\* The scanned ticket keeps its identifying and descriptive fields and no
\* other ticket changes.
FrameKept(c) ==
  /\ DOMAIN tickets' = DOMAIN tickets
  /\ \A u \in DOMAIN tickets \ {call[c].uniqueId} : tickets'[u] = tickets[u]
  /\ Known(c) =>
       /\ DOMAIN tickets'[call[c].uniqueId] = DOMAIN Stored(c)
       /\ \A f \in (DetailFields \cup {"uniqueId"}) \cap DOMAIN Stored(c) :
            tickets'[call[c].uniqueId][f] = Stored(c)[f]

\* C22 as stated: a scanTicket call changes no other ticket and none of
\* the scanned ticket's uniqueId, teamName, leaderName, teamMemberCount,
\* roomNumber, slotNumber, and the answer's snapshot carries each of these
\* fields as stored.
C22_FrameAndSnapshotWithId ==
  [][\A c \in Callers :
       CommitScan(c) =>
         /\ FrameKept(c)
         /\ "ticket" \in DOMAIN result'[c] =>
              \A f \in (DetailFields \cup {"uniqueId"}) \cap DOMAIN Stored(c) :
                /\ f \in DOMAIN result'[c].ticket
                /\ result'[c].ticket[f] = Stored(c)[f]]_vars

\* C22 amended: a scanTicket call changes no other ticket and none of the
\* scanned ticket's uniqueId, teamName, leaderName, teamMemberCount,
\* roomNumber, slotNumber; the snapshot carries teamName, leaderName,
\* teamMemberCount, roomNumber and slotNumber as stored (absent when the
\* ticket has none) and has no uniqueId.
C22_FrameAndSnapshot ==
  [][\A c \in Callers :
       CommitScan(c) =>
         /\ FrameKept(c)
         /\ "ticket" \in DOMAIN result'[c] =>
              /\ "uniqueId" \notin DOMAIN result'[c].ticket
              /\ \A f \in DetailFields :
                   IF f \in DOMAIN Stored(c)
                     THEN /\ f \in DOMAIN result'[c].ticket
                          /\ result'[c].ticket[f] = Stored(c)[f]
                     ELSE f \notin DOMAIN result'[c].ticket]_vars

\* Both tickets have been scanned twice; the last call was an accepted scan
\* of the ticket without room and slot.
C22_Witness ==
  /\ pc["c1"] = "done" /\ call["c1"].branch = "accepted"
  /\ call["c1"].uniqueId = LegacyId
  /\ tickets[LegacyId].checkinCounter = 2
  /\ tickets["u1"].checkinCounter = 2
  /\ result["c1"].ticket.teamName = "Team-0"

\* C23: on a ticket whose recorded scannedBy is a non-empty name S, a call
\* that increments the counter carried S, no name, or the empty string; a
\* call with no name or the empty string is not answered by the
\* conflicting-scanner rule and, 3000 ms or more after lastScanTime,
\* increments the counter and leaves scannedBy = S.
C23_OwnerKeptByUnnamedScans ==
  [][\A c \in Callers :
       (/\ CommitScan(c)
        /\ Known(c)
        /\ TruthyStr(Stored(c).scannedBy))
       => LET u == call[c].uniqueId
              S == Stored(c).scannedBy
              incremented ==
                tickets'[u].checkinCounter = Stored(c).checkinCounter + 1
          IN
          /\ incremented => call[c].scannedBy \in {S, NoScanner, ""}
          /\ call[c].scannedBy \in {NoScanner, ""} =>
               /\ call'[c].branch # "conflict"
               /\ ~InWindow(c) => (incremented /\ tickets'[u].scannedBy = S)
          /\ tickets'[u].scannedBy = S]_vars

C23_Witness ==
  \E c \in Callers :
    /\ pc[c] = "done" /\ call[c].branch = "accepted"
    /\ Known(c)
    /\ call[c].scannedBy \in {NoScanner, ""}
    /\ Stored(c).scannedBy = "Gate-A"
    /\ firstBy[call[c].uniqueId] = "Gate-A"
    /\ Stored(c).checkinCounter = 2

\* C24: every "success" answer carries checkinCounter = 1; the warning of a
\* second scan (the accepted scan that takes the counter from 1 to 2)
\* carries 2; every other warning carries 3 or more; no warning carries a
\* checkinCounter below 2.
C24_ResultShapes ==
  [][\A c \in Callers :
       (CommitScan(c) /\ Known(c))
       => LET r == result'[c]
              secondScan == /\ call'[c].branch = "accepted"
                            /\ Stored(c).checkinCounter = 1
          IN
          /\ r.status = "success" => r.ticket.checkinCounter = 1
          /\ r.status = "warning" =>
               /\ r.ticket.checkinCounter >= 2
               /\ secondScan => r.ticket.checkinCounter = 2
               /\ ~secondScan => r.ticket.checkinCounter >= 3]_vars

\* The failed-attempt records that authenticateAdmin counts at the instant
\* now.
RecentFailures(now) ==
  {s \in adminSessions :
     /\ s.createdAt >= now - FailedAttemptWindow
     /\ ~s.isActive
     /\ StartsWithFailed(s.sessionToken)}
TooManyAttempts ==
  [success |-> FALSE,
   message |-> "Too many failed attempts. Please try again later."]

\* C25: with at least 5 failed-attempt records created within the last
\* 300000 ms, authenticateAdmin answers success = false with "Too many
\* failed attempts. Please try again later.", inserts no session and no
\* failed-attempt record, whatever the password; with fewer than 5 inside
\* the window, the correct password succeeds and opens a session.
C25_RateLimit ==
  [][\A password \in Passwords :
       AuthenticateAdmin(password) =>
         /\ Cardinality(RecentFailures(clock)) >= FailedAttemptLimit
              => /\ lastAuth' = TooManyAttempts
                 /\ adminSessions' = adminSessions
         /\ (/\ Cardinality(RecentFailures(clock)) < FailedAttemptLimit
             /\ password = AdminPassword)
              => /\ lastAuth'.success
                 /\ \E s \in adminSessions' \ adminSessions :
                      /\ s.sessionToken = lastAuth'.sessionToken
                      /\ s.isActive
                      /\ s.createdAt = clock]_vars
\* A login was refused at the limit, in a deployment where a session
\* opened after the first instant is still active.
C25_Witness ==
  /\ lastAuth = TooManyAttempts
  /\ Cardinality(RecentFailures(clock)) >= FailedAttemptLimit
  /\ \E s \in adminSessions : s.isActive /\ s.createdAt > AdminEpoch0

\* C26: failed attempts of one client never make authenticateAdmin refuse
\* the correct password sent by another client: the administrator, who
\* never sends a wrong password, is always let in.
C26_OtherClientNotLockedOut ==
  [][AdminClient => lastAuth'.success]_vars

\* The token was handed out by a successful authenticateAdmin: it is the
\* token of a session document, whose expiresAt is 24 hours after its
\* creation.  Documents are never deleted, and isActive of a session is
\* set to false by invalidateAdminSession alone.
Issued(tok) ==
  /\ tok \in RawTokens
  /\ \E s \in SessionsOf(tok) : s.expiresAt = s.createdAt + SessionLifetime
PastExpiry(tok) == \E s \in SessionsOf(tok) : clock > s.expiresAt
\* No call can report the token valid at this state.
Dead(tok) ==
  \/ Invalidated(tok)
  \/ Issued(tok) /\ PastExpiry(tok)
  \/ FailedAttempt(tok)

\* C27: validateAdminSession answers isValid = true exactly for a token
\* issued by a successful authenticateAdmin, not invalidated, whose
\* expiresAt (issue time + 24 hours) the clock has not passed; a token that
\* is invalidated or expired stays so at every later state, and the token
\* of a failed-attempt document is never valid.
C27_ValidExactlyWhenLive ==
  [][/\ \A tok \in TokenArgs \ {NoToken} :
          QueryAdminSession(tok) =>
            /\ lastAuth'.isValid <=>
                 (Issued(tok) /\ ~Invalidated(tok) /\ ~PastExpiry(tok))
            /\ FailedAttempt(tok) => ~lastAuth'.isValid
    /\ \A tok \in TokenArgs :
         Dead(tok) =>
           /\ Dead(tok)'
           /\ ~SessionQuery(adminSessions', tok, clock').isValid]_vars
\* The query has just answered "Session valid" for one token while the
\* table also holds an invalidated session, an expired one and a
\* failed-attempt document.
C27_Witness ==
  /\ lastAuth = [isValid |-> TRUE, message |-> "Session valid"]
  /\ \E tok \in RawTokens : Invalidated(tok) /\ ~PastExpiry(tok)
  /\ \E tok \in RawTokens : Issued(tok) /\ Expired(tok)
  /\ \E tok \in FailedTokens : FailedAttempt(tok)

\* A detection of the code starts a request.
Issued28(qrData) ==
  /\ Detect(qrData)
  /\ client'.inFlight[qrData] = client.inFlight[qrData] + 1

\* C28: once a request for a code has been sent, the client sends no
\* further request for the same code before the previous one has completed
\* and 5000 ms have passed since.
C28_SameCodeCooldown ==
  [][\A qrData \in QrCodes :
       Issued28(qrData) =>
         /\ client.inFlight[qrData] = 0
         /\ \/ client.completedAt[qrData] = Undef
            \/ clock - client.completedAt[qrData] >= ResetDelay]_vars

\* C29: the client has at most one scanTicket request awaiting its answer,
\* and a detection made while isProcessingRef is true changes nothing.
C29_OneRequestInFlight ==
  [][/\ InFlightTotal(client') <= 1
     /\ \A qrData \in QrCodes :
          (Detect(qrData) /\ client.isProcessingRef) => client' = client]_vars

====
